---- MODULE Spec2Model ----
(***************************************************************************)
(* Model of DueDateCalculator (src/due_date_calculator/calculator.py).     *)
(*                                                                         *)
(* A datetime is a record [ord, hour, minute, second]: ord is the date's   *)
(* proleptic Gregorian ordinal (date.toordinal()), so that adding          *)
(* timedelta(days=1) is ord + 1 and weekday() is (ord + 6) % 7.  The       *)
(* microsecond field is 0 throughout.  turnaround_hours is a whole number  *)
(* of hours, as the signature of calculate_due_date declares (int).  The   *)
(* code's hour-valued floats (hours_left_today, remaining_hours) are kept  *)
(* as whole seconds, i.e. scaled by 3600: with whole-hour turnarounds and  *)
(* whole-second datetimes every comparison the code makes is between       *)
(* values at least 1/3600 h apart or exactly equal integers, and           *)
(* timedelta(hours=x) rounds x to the microsecond, so the scaled integer   *)
(* arithmetic gives the results of the float arithmetic.                   *)
(***************************************************************************)
EXTENDS Integers, Sequences, FiniteSets, TLC

\* ------------------------------------------------------------------------
\* Program constants (calculator.py:14-18)
WORK_START_HOUR == 9
WORK_END_HOUR == 17
\* mutant: an hour of the day left out of the working day
WORK_HOURS_PER_DAY_Short == WORK_END_HOUR - WORK_START_HOUR - 1
WORK_HOURS_PER_DAY == WORK_END_HOUR - WORK_START_HOUR
\* mutant: range(0, 6), Saturday counted as a working day
WORKING_DAYS_WithSaturday == 0 .. 5
WORKING_DAYS == 0 .. 4

\* Units of the datetime / timedelta arithmetic
SecondsPerMinute == 60
SecondsPerHour == 3600
SecondsPerDay == 86400

\* ------------------------------------------------------------------------
\* Bounds of the model
\* date(2025, 3, 10).toordinal(): the Monday the tests submit on
BaseOrdinal == 739320
\* submit dates are BaseOrdinal .. BaseOrdinal + NumSubmitDays - 1
NumSubmitDays == 7
\* turnaround_hours ranges over -MaxNegTurnaround .. MaxTurnaround
MaxTurnaround == 49
MaxNegTurnaround == 2
\* second turnaround of a composed call ranges over 0 .. MaxSecondTurnaround
MaxSecondTurnaround == 17

Hours == 0 .. 23
\* sampled minute and second fields: both ends of the range, a value next
\* to each end, and the values the tests use
Minutes == {0, 1, 12, 59}
Seconds == {0, 1, 30, 59}

SubmitDates ==
    [ord : BaseOrdinal .. (BaseOrdinal + NumSubmitDays - 1),
     hour : Hours, minute : Minutes, second : Seconds]

Turnarounds == (0 - MaxNegTurnaround) .. MaxTurnaround

\* ------------------------------------------------------------------------
\* datetime helpers

\* datetime.weekday(): Monday is 0, Sunday is 6
Weekday(d) == (d.ord + 6) % 7

\* seconds since midnight
SecondOfDay(d) ==
    d.hour * SecondsPerHour + d.minute * SecondsPerMinute + d.second

\* datetime + timedelta(seconds = n), with the carry into the date
AddTimedelta(d, n) ==
    LET total == SecondOfDay(d) + n
        sod == total % SecondsPerDay
    IN  [ord |-> d.ord + (total \div SecondsPerDay),
         hour |-> sod \div SecondsPerHour,
         minute |-> (sod % SecondsPerHour) \div SecondsPerMinute,
         second |-> sod % SecondsPerMinute]

\* datetime(d.year, d.month, d.day, WORK_START_HOUR, 0, 0)
AtWorkStart(d) ==
    [ord |-> d.ord, hour |-> WORK_START_HOUR, minute |-> 0, second |-> 0]

\* placeholder for a datetime variable not yet assigned
NoDate == [ord |-> 0, hour |-> 0, minute |-> 0, second |-> 0]

\* ------------------------------------------------------------------------
\* mutant: the 17:00 boundary clause left out
IsDuringWorkingHours_NoBoundary(date_time) ==
    /\ Weekday(date_time) \in WORKING_DAYS
    /\ WORK_START_HOUR <= date_time.hour
    /\ date_time.hour < WORK_END_HOUR

\* _is_during_working_hours (calculator.py:87-105)
IsDuringWorkingHours(date_time) ==
    LET is_working_day == Weekday(date_time) \in WORKING_DAYS
        is_working_hour ==
            \/ (WORK_START_HOUR <= date_time.hour
                /\ date_time.hour < WORK_END_HOUR)
            \/ (date_time.hour = WORK_END_HOUR /\ date_time.minute = 0)
    IN  is_working_day /\ is_working_hour

\* mutant: the minutes and seconds of the time left out
GetRemainingWorkHoursInDay_HourOnly(date_time) ==
    WORK_END_HOUR * SecondsPerHour - date_time.hour * SecondsPerHour

\* _get_remaining_work_hours_in_day (calculator.py:107-123), in seconds
GetRemainingWorkHoursInDay(date_time) ==
    WORK_END_HOUR * SecondsPerHour
        - date_time.hour * SecondsPerHour
        - date_time.minute * SecondsPerMinute
        - date_time.second

\* calculator.py:136-142: the next calendar day, reset to 9 AM
NextCalendarDayStart(date_time) ==
    AtWorkStart(AddTimedelta(date_time, SecondsPerDay))

\* calculator.py:145-146: the weekend loop
RECURSIVE SkipWeekend(_)
SkipWeekend(next_day) ==
    IF Weekday(next_day) \notin WORKING_DAYS
    THEN SkipWeekend(AddTimedelta(next_day, SecondsPerDay))
    ELSE next_day

\* _get_next_working_day (calculator.py:125-148)
GetNextWorkingDay(date_time) ==
    SkipWeekend(NextCalendarDayStart(date_time))

\* mutant: the check of a negative turnaround left out
EntryBranch_NoNegativeCheck(submit, turnaround) ==
    IF ~IsDuringWorkingHours(submit) THEN "OutsideWorkingHours"
    ELSE IF turnaround = 0 THEN "zero"
    ELSE "calculate"

\* mutant: turnaround_hours <= 0 raises
EntryBranch_ZeroRaises(submit, turnaround) ==
    IF ~IsDuringWorkingHours(submit) THEN "OutsideWorkingHours"
    ELSE IF turnaround <= 0 THEN "NegativeTurnaround"
    ELSE "calculate"

\* calculator.py:39-48: which way the call leaves the validation
EntryBranch(submit, turnaround) ==
    IF ~IsDuringWorkingHours(submit) THEN "OutsideWorkingHours"
    ELSE IF turnaround < 0 THEN "NegativeTurnaround"
    ELSE IF turnaround = 0 THEN "zero"
    ELSE "calculate"

\* mutant: the comparison turned around
FitsToday_Flipped(current, remaining) ==
    remaining >= GetRemainingWorkHoursInDay(current)

\* calculator.py:55-57: the turnaround fits in today's remaining work hours
FitsToday(current, remaining) ==
    remaining <= GetRemainingWorkHoursInDay(current)

\* calculator.py:68: a full working day is left to consume
HasFullWorkingDay(remaining) ==
    remaining >= WORK_HOURS_PER_DAY * SecondsPerHour

\* calculator.py:67-70: the full-working-day loop; yields the loop's final
\* current_date and remaining_hours
RECURSIVE FullWorkingDays(_, _)
FullWorkingDays(current, remaining) ==
    IF HasFullWorkingDay(remaining)
    THEN FullWorkingDays(GetNextWorkingDay(current),
                         remaining - WORK_HOURS_PER_DAY * SecondsPerHour)
    ELSE [current_date |-> current, remaining_hours |-> remaining]

Raised(kind) == [outcome |-> kind, due_date |-> NoDate]
Returned(d) == [outcome |-> "returned", due_date |-> d]

\* calculate_due_date (calculator.py:20-85) as a function of its arguments
CalculateDueDate(submit, turnaround) ==
    LET branch == EntryBranch(submit, turnaround)
        remaining0 == turnaround * SecondsPerHour
    IN  IF branch \in {"OutsideWorkingHours", "NegativeTurnaround"}
        THEN Raised(branch)
        ELSE IF branch = "zero" THEN Returned(submit)
        ELSE IF FitsToday(submit, remaining0)
        THEN Returned(AddTimedelta(submit, remaining0))
        ELSE
          LET after ==
                FullWorkingDays(
                    GetNextWorkingDay(submit),
                    remaining0 - GetRemainingWorkHoursInDay(submit))
          IN  IF after.remaining_hours > 0
              THEN Returned(AddTimedelta(AtWorkStart(after.current_date),
                                         after.remaining_hours))
              ELSE Returned(after.current_date)

\* ------------------------------------------------------------------------
\* One call of calculate_due_date, statement by statement

VARIABLES
    submit_date,        \* argument
    turnaround_hours,   \* argument
    pc,                 \* position in calculate_due_date
    current_date,       \* local of calculate_due_date
    remaining_hours,    \* local of calculate_due_date, in seconds
    next_day,           \* local of _get_next_working_day
    outcome,            \* "running", "returned", or the error raised
    due_date,           \* the returned datetime
    full_day_iters,     \* iterations of the loop at line 68 so far
    skip_iters          \* iterations of the loop at line 145 in the last call

vars == <<submit_date, turnaround_hours, pc, current_date, remaining_hours,
          next_day, outcome, due_date, full_day_iters, skip_iters>>

Init ==
    /\ submit_date \in SubmitDates
    /\ turnaround_hours \in Turnarounds
    /\ pc = "validate"
    /\ current_date = NoDate
    /\ remaining_hours = 0
    /\ next_day = NoDate
    /\ outcome = "running"
    /\ due_date = NoDate
    /\ full_day_iters = 0
    /\ skip_iters = 0

\* the call ends: a return or a raise
Finish(kind, d) ==
    /\ pc' = "done"
    /\ outcome' = kind
    /\ due_date' = d

\* calculator.py:39-42
RaiseOutsideWorkingHours ==
    /\ pc = "validate"
    /\ EntryBranch(submit_date, turnaround_hours) = "OutsideWorkingHours"
    /\ Finish("OutsideWorkingHours", NoDate)
    /\ UNCHANGED <<submit_date, turnaround_hours, current_date,
                   remaining_hours, next_day, full_day_iters, skip_iters>>

\* calculator.py:44-45
RaiseNegativeTurnaround ==
    /\ pc = "validate"
    /\ EntryBranch(submit_date, turnaround_hours) = "NegativeTurnaround"
    /\ Finish("NegativeTurnaround", NoDate)
    /\ UNCHANGED <<submit_date, turnaround_hours, current_date,
                   remaining_hours, next_day, full_day_iters, skip_iters>>

\* calculator.py:47-48
ReturnSubmitDate ==
    /\ pc = "validate"
    /\ EntryBranch(submit_date, turnaround_hours) = "zero"
    /\ Finish("returned", submit_date)
    /\ UNCHANGED <<submit_date, turnaround_hours, current_date,
                   remaining_hours, next_day, full_day_iters, skip_iters>>

\* calculator.py:51-52
Begin ==
    /\ pc = "validate"
    /\ EntryBranch(submit_date, turnaround_hours) = "calculate"
    /\ current_date' = submit_date
    /\ remaining_hours' = turnaround_hours * SecondsPerHour
    /\ pc' = "first_day"
    /\ UNCHANGED <<submit_date, turnaround_hours, next_day, outcome,
                   due_date, full_day_iters, skip_iters>>

\* calculator.py:55-59
ReturnSameDay ==
    /\ pc = "first_day"
    /\ FitsToday(current_date, remaining_hours)
    /\ Finish("returned", AddTimedelta(current_date, remaining_hours))
    /\ UNCHANGED <<submit_date, turnaround_hours, current_date,
                   remaining_hours, next_day, full_day_iters, skip_iters>>

\* calculator.py:55-65, up to the call of _get_next_working_day
UseUpFirstDay ==
    /\ pc = "first_day"
    /\ ~FitsToday(current_date, remaining_hours)
    /\ remaining_hours' =
           remaining_hours - GetRemainingWorkHoursInDay(current_date)
    /\ pc' = "next_day"
    /\ UNCHANGED <<submit_date, turnaround_hours, current_date, next_day,
                   outcome, due_date, full_day_iters, skip_iters>>

\* calculator.py:136-142
NextCalendarDay ==
    /\ pc = "next_day"
    /\ next_day' = NextCalendarDayStart(current_date)
    /\ skip_iters' = 0
    /\ pc' = "skip_weekend"
    /\ UNCHANGED <<submit_date, turnaround_hours, current_date,
                   remaining_hours, outcome, due_date, full_day_iters>>

\* calculator.py:145-146
SkipWeekendDay ==
    /\ pc = "skip_weekend"
    /\ Weekday(next_day) \notin WORKING_DAYS
    /\ next_day' = AddTimedelta(next_day, SecondsPerDay)
    /\ skip_iters' = skip_iters + 1
    /\ UNCHANGED <<submit_date, turnaround_hours, pc, current_date,
                   remaining_hours, outcome, due_date, full_day_iters>>

\* calculator.py:148, and the assignment of the value at line 65 or 70
ReturnNextWorkingDay ==
    /\ pc = "skip_weekend"
    /\ Weekday(next_day) \in WORKING_DAYS
    /\ current_date' = next_day
    /\ pc' = "full_days"
    /\ UNCHANGED <<submit_date, turnaround_hours, remaining_hours, next_day,
                   outcome, due_date, full_day_iters, skip_iters>>

\* calculator.py:68-70, up to the call of _get_next_working_day
FullWorkingDay ==
    /\ pc = "full_days"
    /\ HasFullWorkingDay(remaining_hours)
    /\ remaining_hours' = remaining_hours - WORK_HOURS_PER_DAY * SecondsPerHour
    /\ full_day_iters' = full_day_iters + 1
    /\ pc' = "next_day"
    /\ UNCHANGED <<submit_date, turnaround_hours, current_date, next_day,
                   outcome, due_date, skip_iters>>

\* calculator.py:73-85 with remaining_hours > 0
ReturnLastDay ==
    /\ pc = "full_days"
    /\ ~HasFullWorkingDay(remaining_hours)
    /\ remaining_hours > 0
    /\ current_date' =
           AddTimedelta(AtWorkStart(current_date), remaining_hours)
    /\ Finish("returned", current_date')
    /\ UNCHANGED <<submit_date, turnaround_hours, remaining_hours, next_day,
                   full_day_iters, skip_iters>>

\* calculator.py:73, 85 with remaining_hours = 0
ReturnDayStart ==
    /\ pc = "full_days"
    /\ ~HasFullWorkingDay(remaining_hours)
    /\ ~(remaining_hours > 0)
    /\ Finish("returned", current_date)
    /\ UNCHANGED <<submit_date, turnaround_hours, current_date,
                   remaining_hours, next_day, full_day_iters, skip_iters>>

Next ==
    \/ RaiseOutsideWorkingHours
    \/ RaiseNegativeTurnaround
    \/ ReturnSubmitDate
    \/ Begin
    \/ ReturnSameDay
    \/ UseUpFirstDay
    \/ NextCalendarDay
    \/ SkipWeekendDay
    \/ ReturnNextWorkingDay
    \/ FullWorkingDay
    \/ ReturnLastDay
    \/ ReturnDayStart

Spec == Init /\ [][Next]_vars

\* The call is one sequential thread of control: whenever a statement is
\* enabled the interpreter executes it.
FairSpec == Spec /\ WF_vars(Next)

\* ------------------------------------------------------------------------
\* The statement-level call and the function agree.
StepsAgreeWithFunction ==
    pc = "done" =>
        CalculateDueDate(submit_date, turnaround_hours)
            = [outcome |-> outcome, due_date |-> due_date]

\* ------------------------------------------------------------------------
\* The business calendar as the specification states it, independent of
\* the calculator's own constants: Monday..Friday, 09:00:00 to 17:00:00.

OnWeekday(d) == Weekday(d) < 5
OpeningSecond == 9 * SecondsPerHour
ClosingSecond == 17 * SecondsPerHour
FullDaySeconds == 8 * SecondsPerHour

\* d is on a working day, at a time from 09:00:00 to 17:00:00 inclusive
WithinWorkingTime(d) ==
    /\ OnWeekday(d)
    /\ OpeningSecond <= SecondOfDay(d)
    /\ SecondOfDay(d) <= ClosingSecond

\* working seconds of d's date that lie before d
WorkedOnDate(d) ==
    IF ~OnWeekday(d) \/ SecondOfDay(d) <= OpeningSecond THEN 0
    ELSE IF SecondOfDay(d) >= ClosingSecond THEN FullDaySeconds
    ELSE SecondOfDay(d) - OpeningSecond

\* working seconds of the whole dates from .. to - 1
RECURSIVE WorkingSecondsOfDates(_, _)
WorkingSecondsOfDates(from, to) ==
    IF from >= to THEN 0
    ELSE (IF (from + 6) % 7 < 5 THEN FullDaySeconds ELSE 0)
         + WorkingSecondsOfDates(from + 1, to)

\* working time lying between the datetimes a and b (a not after b)
WorkingSecondsBetween(a, b) ==
    WorkingSecondsOfDates(a.ord, b.ord) + WorkedOnDate(b) - WorkedOnDate(a)

\* ordinal of the first Monday..Friday date after ordinal o
NextWeekdayOrdinal(o) ==
    CHOOSE n \in (o + 1) .. (o + 7) :
        /\ (n + 6) % 7 < 5
        /\ \A m \in (o + 1) .. (n - 1) : (m + 6) % 7 >= 5

\* ordinal of the k-th Monday..Friday date after ordinal o
RECURSIVE KthWorkingDateAfter(_, _)
KthWorkingDateAfter(o, k) ==
    IF k = 0 THEN o ELSE KthWorkingDateAfter(NextWeekdayOrdinal(o), k - 1)

\* 17:00:00 of a working day and 09:00:00 of the next working day are the
\* same point of working time; every other datetime stands for itself
AsDayStart(d) ==
    IF SecondOfDay(d) = ClosingSecond
    THEN [ord |-> NextWeekdayOrdinal(d.ord), hour |-> 9,
          minute |-> 0, second |-> 0]
    ELSE d

\* the datetime a is not after the datetime b
NotAfter(a, b) ==
    \/ a.ord < b.ord
    \/ a.ord = b.ord /\ SecondOfDay(a) <= SecondOfDay(b)

ReturnedDate == pc = "done" /\ outcome = "returned"

\* ------------------------------------------------------------------------
\* C1: for an accepted submit instant and turnaround_hours > 0 the returned
\* instant is on Monday..Friday with a time of day from 09:00:00 to
\* 17:00:00 inclusive.
C1_DueDateWithinWorkingTime ==
    (ReturnedDate /\ turnaround_hours > 0) => WithinWorkingTime(due_date)

\* a Friday submission carried over the weekend and over a full working day
C1_Witness ==
    /\ ReturnedDate
    /\ turnaround_hours > 0
    /\ Weekday(submit_date) = 4
    /\ skip_iters = 2
    /\ full_day_iters >= 1
    /\ WithinWorkingTime(due_date)

\* C2: on a weekday exactly 17:00:00 is valid input, while 17:00:01,
\* 17:01:00 and 08:59:59 fail with OutsideWorkingHours.
C2_BoundaryInclusion ==
    (pc = "done" /\ OnWeekday(submit_date)) =>
        /\ (SecondOfDay(submit_date) = ClosingSecond
                => outcome # "OutsideWorkingHours")
        /\ (SecondOfDay(submit_date)
                \in {ClosingSecond + 1, ClosingSecond + 60, OpeningSecond - 1}
                => outcome = "OutsideWorkingHours")

\* C3: for a valid submit instant and a whole turnaround_hours >= 0 the
\* working time between the submit instant and the returned instant is
\* exactly turnaround_hours.
C3_WorkingTimeEqualsTurnaround ==
    ReturnedDate =>
        WorkingSecondsBetween(submit_date, due_date)
            = turnaround_hours * SecondsPerHour

\* C4 as stated: for every valid submit instant and k >= 1, a turnaround of
\* 8*k returns the submit time of day on the k-th working day after the
\* submit date.
C4_WholeDaysKeepTimeOfDay ==
    (/\ ReturnedDate
     /\ WithinWorkingTime(submit_date)
     /\ turnaround_hours > 0
     /\ turnaround_hours % 8 = 0) =>
        due_date = [submit_date EXCEPT
                       !.ord = KthWorkingDateAfter(submit_date.ord,
                                                   turnaround_hours \div 8)]

\* C4 amended: the same, for a submit time of day strictly between
\* 09:00:00 and 17:00:00, or of exactly 09:00:00 with k >= 2.
C4_WholeDaysKeepTimeOfDayInside ==
    (/\ ReturnedDate
     /\ turnaround_hours > 0
     /\ turnaround_hours % 8 = 0
     /\ \/ (OpeningSecond < SecondOfDay(submit_date)
            /\ SecondOfDay(submit_date) < ClosingSecond)
        \/ (SecondOfDay(submit_date) = OpeningSecond
            /\ turnaround_hours >= 16)) =>
        due_date = [submit_date EXCEPT
                       !.ord = KthWorkingDateAfter(submit_date.ord,
                                                   turnaround_hours \div 8)]

\* Friday 14:12 with 16 hours: two working days on, over the weekend
C4_Witness ==
    /\ ReturnedDate
    /\ turnaround_hours = 16
    /\ Weekday(submit_date) = 4
    /\ submit_date.hour = 14
    /\ submit_date.minute = 12
    /\ Weekday(due_date) = 1
    /\ due_date.ord = submit_date.ord + 4

\* C5: for a fixed valid submit instant and turnarounds 0 <= a < b the
\* instant returned for a is not after the instant returned for b.
C5_Monotonic ==
    ReturnedDate =>
        \A b \in (turnaround_hours + 1) .. (MaxTurnaround + 1) :
            LET later == CalculateDueDate(submit_date, b)
            IN  /\ later.outcome = "returned"
                /\ NotAfter(due_date, later.due_date)

\* a turnaround that ends on the submit day, a larger one that does not
C5_Witness ==
    /\ ReturnedDate
    /\ turnaround_hours > 0
    /\ due_date.ord = submit_date.ord
    /\ \E b \in (turnaround_hours + 1) .. (MaxTurnaround + 1) :
           CalculateDueDate(submit_date, b).due_date.ord > submit_date.ord

\* C6: a submit instant on Saturday or Sunday, or on a weekday outside
\* working hours, fails with OutsideWorkingHours and returns no instant,
\* for every turnaround value, 0 and negative values included.
C6_OutsideWorkingHoursFirst ==
    (pc = "done" /\ ~WithinWorkingTime(submit_date)) =>
        (outcome = "OutsideWorkingHours" /\ due_date = NoDate)

\* C7: for a valid submit instant and turnaround_hours < 0 the call fails
\* with NegativeTurnaround and returns no instant.
C7_NegativeTurnaroundRaises ==
    (pc = "done" /\ IsDuringWorkingHours(submit_date)
        /\ turnaround_hours < 0) =>
        (outcome = "NegativeTurnaround" /\ due_date = NoDate)

C7_Witness ==
    /\ pc = "done"
    /\ WithinWorkingTime(submit_date)
    /\ turnaround_hours < 0
    /\ outcome = "NegativeTurnaround"

\* C8: for a valid submit instant t, a turnaround of 0 returns t unchanged,
\* a t of exactly 17:00:00 included.
C8_ZeroIsIdentity ==
    (pc = "done" /\ IsDuringWorkingHours(submit_date)
        /\ turnaround_hours = 0) =>
        (outcome = "returned" /\ due_date = submit_date)

C8_Witness ==
    /\ ReturnedDate
    /\ turnaround_hours = 0
    /\ SecondOfDay(submit_date) = ClosingSecond
    /\ due_date = submit_date

\* C9: the call terminates; each iteration of the full-day loop lowers the
\* remaining budget by 8 hours and leaves it non-negative, the loop runs at
\* most floor(turnaround_hours / 8) times, and the weekend loop of each
\* next-working-day call runs at most 2 times.
C9_Terminates ==
    /\ <>(pc = "done")
    /\ [](/\ skip_iters <= 2
          /\ full_day_iters * 8 <= (IF turnaround_hours > 0
                                    THEN turnaround_hours ELSE 0))
    /\ [][full_day_iters' # full_day_iters =>
            /\ full_day_iters' = full_day_iters + 1
            /\ remaining_hours' = remaining_hours - FullDaySeconds
            /\ remaining_hours' >= 0]_vars

\* a call that ran the full-day loop as often as the bound allows, the
\* last next-working-day call skipping a weekend
C9_Witness ==
    /\ ReturnedDate
    /\ turnaround_hours >= 24
    /\ full_day_iters = turnaround_hours \div 8
    /\ skip_iters = 2

\* C10 as stated: the instant returned for (t, a) is accepted as a submit
\* instant, and the call on it with b returns what the call on t with
\* a + b returns.
C10_Composes ==
    (ReturnedDate /\ WithinWorkingTime(submit_date)
        /\ turnaround_hours >= 0) =>
        \A b \in 0 .. MaxSecondTurnaround :
            /\ IsDuringWorkingHours(due_date)
            /\ CalculateDueDate(due_date, b)
                   = CalculateDueDate(submit_date, turnaround_hours + b)

\* C10 amended: the instant returned for (t, a) is accepted as a submit
\* instant, and the call on it with b and the call on t with a + b return
\* the same point of working time: the same instant, or 17:00:00 of a
\* working day for one and 09:00:00 of the next working day for the other.
C10_ComposesUpToDayBoundary ==
    (ReturnedDate /\ turnaround_hours >= 0) =>
        \A b \in 0 .. MaxSecondTurnaround :
            LET second == CalculateDueDate(due_date, b)
                whole == CalculateDueDate(submit_date, turnaround_hours + b)
            IN  /\ IsDuringWorkingHours(due_date)
                /\ second.outcome = "returned"
                /\ whole.outcome = "returned"
                /\ AsDayStart(second.due_date) = AsDayStart(whole.due_date)

\* a composition whose two sides differ: 17:00:00 against the next 09:00:00
C10_Witness ==
    /\ ReturnedDate
    /\ turnaround_hours > 0
    /\ \E b \in 1 .. MaxSecondTurnaround :
           LET second == CalculateDueDate(due_date, b)
               whole == CalculateDueDate(submit_date, turnaround_hours + b)
           IN  /\ second.due_date # whole.due_date
               /\ AsDayStart(second.due_date) = AsDayStart(whole.due_date)

====
